---- MODULE Spec2Model ----
(***************************************************************************)
(* Model of src/app.py, the Singapore flood risk assessment tool.          *)
(*                                                                         *)
(*   Spec        the application: the cached record store (load_data),     *)
(*               the per-session state and one rerun of main per action.   *)
(*   SpecRisk    the scenario assessment of a found record: get_flood_depth*)
(*               draws two depths, make_flood_table_rows and get_risk_class*)
(*               label them (lines 178-179, 244, 253).                     *)
(*   SpecFormat  the input validation of line 166 applied to every string  *)
(*               over a small alphabet.                                    *)
(*                                                                         *)
(* Depths are floats in the source.  Here a depth is an integer k standing *)
(* for the float k / 2^DepthBits, which is exactly representable, so that  *)
(* comparisons and the "%.2f" rendering are those of the float.            *)
(* Strings that the code inspects character by character (postal codes,    *)
(* rendered depths) are sequences of one-character strings.                *)
(***************************************************************************)
EXTENDS Integers, Sequences, FiniteSets, TLC

VARIABLES data, cache, first_load, session_state, run, assess, fmt

vars == <<data, cache, first_load, session_state, run, assess, fmt>>

(***************************************************************************)
(* Characters                                                              *)
(***************************************************************************)
DigitChars == <<"0", "1", "2", "3", "4", "5", "6", "7", "8", "9">>

AsciiDigits == {DigitChars[i] : i \in 1..Len(DigitChars)}

\* "U+0660" is ARABIC-INDIC DIGIT ZERO, a character of Unicode category Nd.
NonAsciiDigits == {"U+0660"}

\* What \d matches in a str pattern of Python 3's re: any Unicode decimal digit.
UnicodeDecimalDigits == AsciiDigits \cup NonAsciiDigits

DigitChar(n) == DigitChars[n + 1]

CharVal(c) == CHOOSE n \in 0..9 : DigitChars[n + 1] = c

(***************************************************************************)
(* Risk classification and table rows                                      *)
(***************************************************************************)
DepthBits == 4

Den == 2 ^ DepthBits

Half == Den \div 2

One == Den

MaxDepth == (3 * Den) \div 2

Depths == 0..MaxDepth

get_risk_class_HighAtOne(depth) ==
    IF depth < Half THEN <<"Low", "#50d890">>
    ELSE IF depth < One THEN <<"Medium", "#ffc26f">>
    ELSE <<"High", "#ff595e">>

get_risk_class(depth) ==
    IF depth < Half THEN <<"Low", "#50d890">>
    ELSE IF depth <= One THEN <<"Medium", "#ffc26f">>
    ELSE <<"High", "#ff595e">>

RECURSIVE DecStr(_)
DecStr(n) ==
    IF n < 10 THEN <<DigitChar(n)>>
    ELSE DecStr(n \div 10) \o <<DigitChar(n % 10)>>

\* num/den rounded to the nearest integer, ties to even: the rounding of
\* Python's float formatting, which is exact on the float's value.
RoundHalfEven(num, den) ==
    LET q == num \div den
        r == num % den
    IN  IF 2 * r > den \/ (2 * r = den /\ q % 2 = 1) THEN q + 1 ELSE q

\* f"{depth:.2f}"
format_2f(depth) ==
    LET h == RoundHalfEven(depth * 100, Den)
    IN  DecStr(h \div 100) \o <<".", DigitChar((h \div 10) % 10), DigitChar(h % 10)>>

make_flood_table_rows_Swapped(baseline, rcp85) ==
    LET scenarios == <<"Baseline", "RCP8.5">>
        depths    == <<rcp85, baseline>>
    IN  [i \in 1..2 |->
            [Scenario   |-> scenarios[i],
             FloodDepth |-> format_2f(depths[i]),
             RiskLevel  |-> get_risk_class(depths[i])[1],
             Color      |-> get_risk_class(depths[i])[2]]]

make_flood_table_rows(baseline, rcp85) ==
    LET scenarios == <<"Baseline", "RCP8.5">>
        depths    == <<baseline, rcp85>>
    IN  [i \in 1..2 |->
            [Scenario   |-> scenarios[i],
             FloodDepth |-> format_2f(depths[i]),
             RiskLevel  |-> get_risk_class(depths[i])[1],
             Color      |-> get_risk_class(depths[i])[2]]]

\* The bands of the in-app legend (lines 209, 213, 217) and of the guidance
\* text (lines 276-278).
LegendLow(depth) == depth < Half

LegendMedium(depth) == Half <= depth /\ depth <= One

LegendHigh(depth) == depth >= One

AssessIdle ==
    [stage |-> "idle", depth_baseline |-> 0, depth_rcp85 |-> 0,
     table_rows |-> <<>>, risk_level |-> "", risk_color |-> "", popup_risk |-> ""]

\* Line 178: get_flood_depth ignores its arguments and draws two depths.
get_flood_depth ==
    /\ \E b \in Depths, f \in Depths :
          assess' = [AssessIdle EXCEPT !.stage = "depths",
                                       !.depth_baseline = b,
                                       !.depth_rcp85 = f]
    /\ UNCHANGED <<data, cache, first_load, session_state, run, fmt>>

\* Lines 179, 244 and 253: the table, the popup text and the map circle.
RenderAssessment ==
    /\ assess.stage = "depths"
    /\ assess' = [assess EXCEPT
          !.stage = "rendered",
          !.table_rows = make_flood_table_rows(assess.depth_baseline, assess.depth_rcp85),
          !.popup_risk = get_risk_class(assess.depth_rcp85)[1],
          !.risk_level = get_risk_class(assess.depth_rcp85)[1],
          !.risk_color = get_risk_class(assess.depth_rcp85)[2]]
    /\ UNCHANGED <<data, cache, first_load, session_state, run, fmt>>

(***************************************************************************)
(* Input validation                                                        *)
(***************************************************************************)
MaxLen == 7

FormatAlphabet == {"0", "a", " ", "\n", "U+0660"}

Strings(alphabet, n) == UNION {[1..k -> alphabet] : k \in 0..n}

\* re.match(r'^\d{6}$', s): six decimal digits at the start, then the end of
\* the string, where $ also matches just before one trailing newline.
re_match_6digits(s) ==
    /\ Len(s) >= 6
    /\ \A i \in 1..6 : s[i] \in UnicodeDecimalDigits
    /\ \/ Len(s) = 6
       \/ Len(s) = 7 /\ s[7] = "\n"

InvalidFormat_LengthOnly(postal_code) ==
    postal_code # <<>> /\ Len(postal_code) # 6

\* Line 166: postal_code and not re.match(...)
InvalidFormat(postal_code) ==
    postal_code # <<>> /\ ~ re_match_6digits(postal_code)

ValidateInput ==
    /\ fmt.verdict = "unchecked"
    /\ fmt' = [fmt EXCEPT !.verdict =
                  IF InvalidFormat(fmt.text) THEN "InvalidFormat" ELSE "passed"]
    /\ UNCHANGED <<data, cache, first_load, session_state, run, assess>>

FmtIdle == [text |-> <<>>, verdict |-> "idle"]

(***************************************************************************)
(* The data source and the record store                                    *)
(***************************************************************************)
K1 == <<"0", "1", "8", "9", "8", "9">>

K2 == <<"1", "2", "3", "4", "5", "6">>

Required == {"POSTAL", "ADDRESS", "ROAD_NAME", "BUILDING", "LATITUDE", "LONGITUDE"}

\* An object of the JSON array: `has` is the set of its keys, and a value is
\* meaningful only when its key is in `has`.  The values of the i-th object
\* carry i, so that two objects with the same POSTAL differ.
Entry(postal, i, missing) ==
    [has       |-> Required \ {missing},
     POSTAL    |-> postal,
     ADDRESS   |-> <<"address", i>>,
     ROAD_NAME |-> <<"road", i>>,
     BUILDING  |-> IF i = 1 THEN <<"NIL">> ELSE <<"building", i>>,
     LATITUDE  |-> <<"lat", i>>,
     LONGITUDE |-> <<"lon", i>>]

MissingOpts == {"none"} \cup Required

\* The contents database.json.gz may have: no object, one object, or a
\* complete object followed by a second one with the same or another POSTAL;
\* the last object may lack one required key.
Sources ==
    {<<>>}
    \cup {<<Entry(K1, 1, m)>> : m \in MissingOpts}
    \cup {<<Entry(K1, 1, "none"), Entry(p, 2, m)>> : p \in {K1, K2}, m \in MissingOpts}

LastIndex(d, k) ==
    CHOOSE i \in 1..Len(d) :
        /\ d[i].POSTAL = k
        /\ \A j \in (i + 1)..Len(d) : d[j].POSTAL # k

\* Line 23: {entry['POSTAL']: entry for entry in data}; a later object
\* replaces an earlier one with the same key.
PostalDict(d) ==
    [k \in {d[i].POSTAL : i \in 1..Len(d)} |-> d[LastIndex(d, k)]]

\* Lines 24-26: every value of the dict gets two sampled flags.
SampledDicts(d) ==
    LET pd == PostalDict(d)
    IN  {[k \in DOMAIN pd |->
            pd[k] @@ [IS_FLOOD_PRONE |-> prone[k], IS_FLOOD_HOTSPOT |-> hot[k]]] :
         prone \in [DOMAIN pd -> BOOLEAN], hot \in [DOMAIN pd -> BOOLEAN]}

EmptyCache == [status |-> "empty", value |-> <<>>]

load_data_Resample(c, d) ==
    IF \E i \in 1..Len(d) : "POSTAL" \notin d[i].has
    THEN {[load |-> "raised", value |-> <<>>, cache |-> c]}
    ELSE {[load |-> IF c.status = "cached" THEN "hit" ELSE "miss", value |-> v,
           cache |-> IF c.status = "cached" THEN c ELSE [status |-> "cached", value |-> v]] :
          v \in SampledDicts(d)}

load_data_Recache(c, d) ==
    IF \E i \in 1..Len(d) : "POSTAL" \notin d[i].has
    THEN {[load |-> "raised", value |-> <<>>, cache |-> c]}
    ELSE {[load |-> IF c.status = "cached" THEN "hit" ELSE "miss", value |-> v,
           cache |-> [status |-> "cached", value |-> v]] :
          v \in SampledDicts(d)}

\* @st.cache_data load_data(): the possible results of one call with the
\* cache c and the file contents d.  A call that raises caches nothing.
load_data(c, d) ==
    IF c.status = "cached"
    THEN {[load |-> "hit", value |-> c.value, cache |-> c]}
    ELSE IF \E i \in 1..Len(d) : "POSTAL" \notin d[i].has
    THEN {[load |-> "raised", value |-> <<>>, cache |-> c]}
    ELSE {[load |-> "miss", value |-> v, cache |-> [status |-> "cached", value |-> v]] :
          v \in SampledDicts(d)}

(***************************************************************************)
(* One rerun of main                                                       *)
(***************************************************************************)
MaxChars == 6

Sessions == {"s1", "s2"}

LetterCode == <<"a", "b", "c", "d", "e", "f">>

NonAsciiCode == [i \in 1..6 |-> "U+0660"]

\* What the text box may hold: at most MaxChars characters.
Inputs == {<<>>, K1, K2, LetterCode, NonAsciiCode}

FreshSession == [keys |-> {}, postal_search |-> <<>>, last_search |-> <<>>]

\* Lines 136-139.
WithDefaults(ss) ==
    [keys          |-> {"postal_search", "last_search"},
     postal_search |-> IF "postal_search" \in ss.keys THEN ss.postal_search ELSE <<>>,
     last_search   |-> IF "last_search" \in ss.keys THEN ss.last_search ELSE <<>>]

\* Lines 142-144.
clear_input(ss) ==
    [keys          |-> ss.keys \cup {"postal_search", "last_search"},
     postal_search |-> <<>>,
     last_search   |-> <<>>]

trigger_search_NoMemo(search, postal_code, last_search) ==
    search \/ (postal_code # <<>> /\ Len(postal_code) = 6)

\* Line 171.
trigger_search(search, postal_code, last_search) ==
    search \/ (postal_code # <<>> /\ postal_code # last_search /\ Len(postal_code) = 6)

Lookup_Any(postal_dict, postal_code) ==
    {<<postal_dict[k]>> : k \in DOMAIN postal_dict}

\* Lines 175-176: the entries the lookup may bind (none when the key is
\* absent).
Lookup(postal_dict, postal_code) ==
    IF postal_code \in DOMAIN postal_dict THEN {<<postal_dict[postal_code]>>} ELSE {}

\* The first key of `entry` that the found branch reads and that is absent,
\* in the order of lines 177, 189, 190, 192; "none" when all are present.
FirstKeyError(entry) ==
    LET order == <<"LATITUDE", "LONGITUDE", "ADDRESS", "ROAD_NAME", "BUILDING">>
        miss  == {i \in 1..Len(order) : order[i] \notin entry.has}
    IN  IF miss = {} THEN "none"
        ELSE order[CHOOSE i \in miss : \A j \in miss : i <= j]

NoRun ==
    [session |-> "", kind |-> "none", postal_code |-> <<>>, search |-> FALSE,
     load |-> "none", postal_dict |-> <<>>,
     outcome |-> "none", messages |-> {}, membership_tests |-> 0,
     store_reads |-> 0, depth_calls |-> 0, entry |-> <<>>, key_error |-> "none",
     rendered |-> <<>>]

\* Lines 185-193 and 229-250: what the page shows of the entry.
Rendered(entry, postal_code) ==
    <<[Address       |-> entry.ADDRESS,
       Road          |-> entry.ROAD_NAME,
       Building      |-> IF entry.BUILDING # <<"NIL">> THEN entry.BUILDING ELSE <<"N/A">>,
       PostalCode    |-> postal_code,
       FloodProne    |-> entry.IS_FLOOD_PRONE,
       FloodHotspot  |-> entry.IS_FLOOD_HOTSPOT,
       MapLocation   |-> <<entry.LATITUDE, entry.LONGITUDE>>]>>

\* Lines 173-291, given the dict load_data returned and the session state
\* after line 163: the set of [ss, run] results of the rest of the run.
Pipeline(ss, r0, postal_dict, postal_code, search) ==
    IF trigger_search(search, postal_code, ss.last_search) /\ postal_code # <<>>
    THEN LET ss2 == [ss EXCEPT !.last_search = postal_code]
             r1  == [r0 EXCEPT !.membership_tests = 1]
         IN  IF Lookup(postal_dict, postal_code) = {}
             THEN {[ss  |-> ss2,
                    run |-> [r1 EXCEPT !.outcome = "NotFound",
                                       !.messages = {"not found"}]]}
             ELSE {LET entry == e[1]
                       ke    == FirstKeyError(entry)
                       r2    == [r1 EXCEPT !.store_reads = 1, !.entry = e,
                                           !.key_error = ke,
                                           !.depth_calls =
                                               IF ke \in {"LATITUDE", "LONGITUDE"}
                                               THEN 0 ELSE 1]
                   IN  [ss  |-> ss2,
                        run |-> IF ke # "none"
                                THEN [r2 EXCEPT !.outcome = "KeyError"]
                                ELSE [r2 EXCEPT !.outcome = "Assessed",
                                                !.rendered = Rendered(entry, postal_code)]] :
                   e \in Lookup(postal_dict, postal_code)}
    ELSE IF postal_code = <<>>
    THEN {[ss |-> ss, run |-> [r0 EXCEPT !.outcome = "Info", !.messages = {"info"}]]}
    ELSE {[ss |-> ss, run |-> [r0 EXCEPT !.outcome = "Blank"]]}

\* main(), lines 132-291, run for session s whose state is ss when the script
\* starts, with the text box holding postal_code and `search` telling whether
\* Assess Risk was pressed.
Main(s, kind, ss, postal_code, search) ==
    \E ld \in load_data(cache, data) :
        LET r0 == [NoRun EXCEPT !.session = s, !.kind = kind,
                                !.postal_code = postal_code, !.search = search,
                                !.load = ld.load, !.postal_dict = ld.value]
        IN  /\ cache' = ld.cache
            /\ first_load' = IF first_load = <<>> /\ ld.load # "raised"
                             THEN <<ld.value>> ELSE first_load
            /\ IF ld.load = "raised"
               THEN /\ session_state' = [session_state EXCEPT ![s] = ss]
                    /\ run' = [r0 EXCEPT !.outcome = "LoadFailure"]
               ELSE LET ss0 == WithDefaults(ss)
                        ss1 == [ss0 EXCEPT !.postal_search = postal_code]
                    IN  IF InvalidFormat(postal_code)
                        THEN /\ session_state' = [session_state EXCEPT ![s] = ss1]
                             /\ run' = [r0 EXCEPT !.outcome = "InvalidFormat",
                                                  !.messages = {"invalid format"}]
                        ELSE \E res \in Pipeline(ss1, r0, ld.value, postal_code, search) :
                                /\ session_state' = [session_state EXCEPT ![s] = res.ss]
                                /\ run' = res.run
            /\ UNCHANGED <<data, assess, fmt>>

\* A rerun that is not caused by Clear.  Before the widgets were ever drawn
\* (lines 150-160) the text box returns its default and no button is pressed.
Rerun(s) ==
    \E postal_code \in Inputs, search \in BOOLEAN :
        /\ Len(postal_code) <= MaxChars
        /\ session_state[s].keys = {} => (postal_code = <<>> /\ ~ search)
        /\ Main(s, "rerun", session_state[s], postal_code, search)

\* Clear pressed: the on_click callback runs, then the script reruns with the
\* text box back at its new default.
Clear(s) ==
    /\ session_state[s].keys # {}
    /\ Main(s, "clear", clear_input(session_state[s]), <<>>, FALSE)

(***************************************************************************)
(* Specifications                                                          *)
(***************************************************************************)
Init ==
    /\ data \in Sources
    /\ cache = EmptyCache
    /\ first_load = <<>>
    /\ session_state = [s \in Sessions |-> FreshSession]
    /\ run = NoRun
    /\ assess = AssessIdle
    /\ fmt = FmtIdle

Next ==
    \/ \E s \in Sessions : Rerun(s)
    \/ \E s \in Sessions : Clear(s)

Spec == Init /\ [][Next]_vars

InitRisk ==
    /\ data = <<>>
    /\ cache = EmptyCache
    /\ first_load = <<>>
    /\ session_state = [s \in Sessions |-> FreshSession]
    /\ run = NoRun
    /\ assess = AssessIdle
    /\ fmt = FmtIdle

NextRisk ==
    \/ get_flood_depth
    \/ RenderAssessment

SpecRisk == InitRisk /\ [][NextRisk]_vars

InitFormat ==
    /\ data = <<>>
    /\ cache = EmptyCache
    /\ first_load = <<>>
    /\ session_state = [s \in Sessions |-> FreshSession]
    /\ run = NoRun
    /\ assess = AssessIdle
    /\ fmt \in {[text |-> t, verdict |-> "unchecked"] : t \in Strings(FormatAlphabet, MaxLen)}

NextFormat == ValidateInput

SpecFormat == InitFormat /\ [][NextFormat]_vars

(***************************************************************************)
(* Properties                                                              *)
(***************************************************************************)
Levels == {"Low", "Medium", "High"}

\* Every (depth, level, colour) the rendered assessment shows: the map
\* circle and the two table rows.
Classified ==
    {<<assess.depth_rcp85, assess.risk_level, assess.risk_color>>,
     <<assess.depth_baseline, assess.table_rows[1].RiskLevel, assess.table_rows[1].Color>>,
     <<assess.depth_rcp85, assess.table_rows[2].RiskLevel, assess.table_rows[2].Color>>}

\* C1: for every depth d >= 0, get_risk_class(d) is Low (#50d890) iff
\* d < 0.5, Medium (#ffc26f) iff 0.5 <= d <= 1.0 and High (#ff595e) iff
\* d > 1.0; 0.5 and 1.0 are Medium, and each level has exactly one colour.
C1_RiskClassThresholds ==
    assess.stage = "rendered" =>
        \A t \in Classified :
            LET d == t[1]  lvl == t[2]  col == t[3]
            IN  /\ lvl \in Levels
                /\ lvl = "Low" <=> d < Half
                /\ lvl = "Medium" <=> (Half <= d /\ d <= One)
                /\ lvl = "High" <=> d > One
                /\ lvl = "Low" <=> col = "#50d890"
                /\ lvl = "Medium" <=> col = "#ffc26f"
                /\ lvl = "High" <=> col = "#ff595e"

C1_Witness ==
    /\ assess.stage = "rendered"
    /\ assess.depth_baseline = Half
    /\ assess.table_rows[1].RiskLevel = "Medium"
    /\ assess.depth_rcp85 = One
    /\ assess.risk_level = "Medium"
    /\ assess.risk_color = "#ffc26f"

\* s is digits, a point and exactly two digits.
TwoDecimalPlaces(s) ==
    /\ Len(s) >= 4
    /\ s[Len(s) - 2] = "."
    /\ \A i \in (1..Len(s)) \ {Len(s) - 2} : s[i] \in AsciiDigits

RECURSIVE DigitsValue(_)
DigitsValue(s) ==
    IF s = <<>> THEN 0
    ELSE 10 * DigitsValue(SubSeq(s, 1, Len(s) - 1)) + CharVal(s[Len(s)])

\* The number of hundredths a two-decimal string denotes.
Hundredths(s) ==
    DigitsValue(SubSeq(s, 1, Len(s) - 3) \o SubSeq(s, Len(s) - 1, Len(s)))

\* The string s shows the depth d to the nearest hundredth.
ShowsDepth(s, d) ==
    LET diff == 100 * d - Hundredths(s) * Den
    IN  /\ 2 * diff <= Den
        /\ 2 * diff >= 0 - Den

\* C8: make_flood_table_rows(b, f) returns exactly 2 rows in the order
\* [Baseline, RCP8.5]; the first row's depth, level and colour come from b
\* and the second row's from f, the level and colour being get_risk_class of
\* the row's own depth, and the depth is shown with exactly 2 decimals.
C8_TwoRowsInOrder ==
    assess.stage = "rendered" =>
        LET rows == assess.table_rows
            own  == <<assess.depth_baseline, assess.depth_rcp85>>
        IN  /\ Len(rows) = 2
            /\ rows[1].Scenario = "Baseline"
            /\ rows[2].Scenario = "RCP8.5"
            /\ \A i \in 1..2 :
                  /\ rows[i].RiskLevel = get_risk_class(own[i])[1]
                  /\ rows[i].Color = get_risk_class(own[i])[2]
                  /\ TwoDecimalPlaces(rows[i].FloodDepth)
                  /\ ShowsDepth(rows[i].FloodDepth, own[i])

C8_Witness ==
    /\ assess.stage = "rendered"
    /\ assess.depth_baseline = Half
    /\ assess.depth_rcp85 = One + 1
    /\ assess.table_rows[1].FloodDepth = <<"0", ".", "5", "0">>
    /\ assess.table_rows[1].RiskLevel = "Medium"
    /\ assess.table_rows[2].RiskLevel = "High"

\* C9: the level get_risk_class assigns to a depth agrees with the band the
\* legend displays for it (Low < 0.5 m, Medium 0.5 to 1.0 m, High >= 1.0 m)
\* for every depth in [0, 1.5], including exactly 1.0 m, which is High.
C9_LegendAgrees ==
    assess.stage = "rendered" =>
        \A t \in Classified :
            LET d == t[1]  lvl == t[2]
            IN  /\ LegendLow(d) => lvl = "Low"
                /\ LegendHigh(d) => lvl = "High"
                /\ (LegendMedium(d) /\ ~ LegendHigh(d)) => lvl = "Medium"

SixAsciiDigits(s) ==
    /\ Len(s) = 6
    /\ \A i \in 1..6 : s[i] \in AsciiDigits

\* C3: an input passes the format check iff it is exactly 6 ASCII decimal
\* digits; every other non-empty input is rejected as InvalidFormat.
C3_SixAsciiDigitsOnly ==
    (fmt.verdict \in {"passed", "InvalidFormat"} /\ fmt.text # <<>>) =>
        (fmt.verdict = "passed" <=> SixAsciiDigits(fmt.text))

FlagsOf(postal_dict) ==
    [k \in DOMAIN postal_dict |->
        <<postal_dict[k].IS_FLOOD_PRONE, postal_dict[k].IS_FLOOD_HOTSPOT>>]

\* C2: every call of load_data returns, for every postal code, the flags the
\* first call returned.
C2_LoadIdempotent ==
    run.load \in {"miss", "hit"} =>
        /\ first_load # <<>>
        /\ FlagsOf(run.postal_dict) = FlagsOf(first_load[1])

C2_Witness ==
    /\ run.load = "hit"
    /\ \E k \in DOMAIN run.postal_dict :
          run.postal_dict[k].IS_FLOOD_PRONE /\ ~ run.postal_dict[k].IS_FLOOD_HOTSPOT
    /\ \E k \in DOMAIN run.postal_dict :
          ~ run.postal_dict[k].IS_FLOOD_PRONE

\* C6: once the store is built, no user action changes it: every later run
\* finds it cached, gets exactly it, and leaves it as it is.
C6_StoreFrozen ==
    [][cache.status = "cached" =>
          /\ cache' = cache
          /\ first_load' = first_load
          /\ run'.load = "hit"
          /\ run'.postal_dict = cache.value]_vars

C6_Witness ==
    /\ cache.status = "cached"
    /\ run.kind = "clear"
    /\ run.load = "hit"
    /\ \E s \in Sessions : s # run.session /\ session_state[s].last_search = K1
    /\ K1 \in DOMAIN cache.value
    /\ cache.value = first_load[1]

\* A run that got past load_data.
Served == run.kind # "none" /\ run.load # "raised"

\* C4: an input that fails the format check gets the invalid-format error
\* and nothing else: no membership test, no read of the store, no call of
\* get_flood_depth, no not-found message.  The not-found message is shown
\* only for an input that passed the check and is absent from the store.
C4_InvalidStopsRun ==
    Served =>
        /\ (run.postal_code # <<>> /\ ~ re_match_6digits(run.postal_code)) =>
              /\ run.outcome = "InvalidFormat"
              /\ run.messages = {"invalid format"}
              /\ run.membership_tests = 0
              /\ run.store_reads = 0
              /\ run.depth_calls = 0
        /\ "invalid format" \in run.messages =>
              (run.postal_code # <<>> /\ ~ re_match_6digits(run.postal_code))
        /\ "not found" \in run.messages =>
              /\ re_match_6digits(run.postal_code)
              /\ run.postal_code \notin DOMAIN run.postal_dict
              /\ run.outcome = "NotFound"
        /\ ~ ({"invalid format", "not found"} \subseteq run.messages)

C4_Witness ==
    /\ Served
    /\ run.search
    /\ run.postal_code = LetterCode
    /\ run.outcome = "InvalidFormat"
    /\ DOMAIN run.postal_dict # {}

\* C5: a triggered search for a format-valid code c uses exactly the store's
\* record for c when the store has the key c (its POSTAL is c, and what is
\* rendered is that record's), and is NotFound with no record otherwise.
C5_LookupExact ==
    (Served /\ run.membership_tests = 1) =>
        LET c  == run.postal_code
            pd == run.postal_dict
        IN  /\ pd = cache.value
            /\ IF c \in DOMAIN pd
               THEN /\ run.entry = <<pd[c]>>
                    /\ pd[c].POSTAL = c
                    /\ run.outcome \in {"Assessed", "KeyError"}
                    /\ run.outcome = "Assessed" =>
                          /\ Len(run.rendered) = 1
                          /\ run.rendered[1].PostalCode = c
                          /\ run.rendered[1].Address = pd[c].ADDRESS
                          /\ run.rendered[1].Road = pd[c].ROAD_NAME
                          /\ run.rendered[1].MapLocation = <<pd[c].LATITUDE, pd[c].LONGITUDE>>
                          /\ run.rendered[1].FloodProne = pd[c].IS_FLOOD_PRONE
                          /\ run.rendered[1].FloodHotspot = pd[c].IS_FLOOD_HOTSPOT
               ELSE /\ run.outcome = "NotFound"
                    /\ run.entry = <<>>
                    /\ run.rendered = <<>>
                    /\ run.store_reads = 0

C5_Witness ==
    /\ Served
    /\ run.outcome = "Assessed"
    /\ run.postal_code = K2
    /\ Cardinality(DOMAIN run.postal_dict) = 2
    /\ run.rendered[1].FloodProne
    /\ ~ run.rendered[1].FloodHotspot

\* C7: an entry of the source that lacks a required field makes load_data
\* fail, so no run is served from a store holding such an entry, and no
\* failure surfaces at query time.
C7_MalformedIsLoadFailure ==
    (run.kind # "none" /\ \E i \in 1..Len(data) : data[i].has # Required) =>
        /\ run.load = "raised"
        /\ run.outcome = "LoadFailure"

\* C10: the lookup runs in a rerun iff the code is non-empty, passes the
\* format check and either Assess Risk was pressed or the code differs from
\* last_search; when it runs last_search becomes the code, so a rerun with
\* the same code and no button press looks nothing up and draws no depths;
\* a rerun that does not look up leaves last_search as it was; Clear empties
\* postal_search and last_search.
C10_SearchOncePerCode ==
    [][(run'.kind # "none" /\ run'.load # "raised") =>
          LET s    == run'.session
              c    == run'.postal_code
              prev == IF run'.kind = "clear" THEN <<>> ELSE session_state[s].last_search
              ran  == run'.membership_tests = 1
          IN  /\ ran <=> (c # <<>> /\ re_match_6digits(c) /\ (run'.search \/ c # prev))
              /\ ran => session_state'[s].last_search = c
              /\ run'.depth_calls = 1 => ran
              /\ (~ ran /\ run'.kind = "rerun") =>
                    session_state'[s].last_search = session_state[s].last_search
              /\ (run'.kind = "rerun" /\ ~ run'.search /\ c = session_state[s].last_search) =>
                    (run'.membership_tests = 0 /\ run'.depth_calls = 0)
              /\ run'.kind = "rerun" => session_state'[s].postal_search = c
              /\ run'.kind = "clear" =>
                    /\ session_state'[s].postal_search = <<>>
                    /\ session_state'[s].last_search = <<>>
              /\ \A t \in Sessions \ {s} : session_state'[t] = session_state[t]]_vars

C10_Witness ==
    /\ Served
    /\ run.kind = "rerun"
    /\ ~ run.search
    /\ run.postal_code = K1
    /\ session_state[run.session].last_search = K1
    /\ K1 \in DOMAIN run.postal_dict
    /\ run.outcome = "Blank"

====
